---- MODULE Spec2Model ----
(***************************************************************************)
(* Model of asyncdb's greenlet socket pool                                 *)
(* (src/asyncdb/frameworks/pool.py, class SocketPool), of the MySQL        *)
(* connection that draws its socket from the pool                          *)
(* (src/asyncdb/mysql/core.py, class PoolConnection) and of the greenlet   *)
(* event (src/asyncdb/event.py, class MotorGreenletEvent).                 *)
(*                                                                         *)
(* The pool runs on a single-threaded event loop.  Greenlets (callers)     *)
(* run until they suspend: in MotorSocket.connect() while a socket is      *)
(* being created, or in SocketPool.connect() while queued for a socket.    *)
(* Every action below is one uninterrupted run of a greenlet or of an      *)
(* event-loop callback between two suspension points.                      *)
(***************************************************************************)
EXTENDS Integers, Sequences, FiniteSets, TLC

\* ---- bounds of the model ------------------------------------------------
NumCallers == 3      \* greenlets that are inside the pool or hold a socket
MaxPoolSize == 2     \* max_size is drawn from 1..MaxPoolSize
MaxSockets == 2      \* sockets the factory hands out in one behaviour
MaxResets == 1       \* calls of reset() by the client in one behaviour
MaxSeconds == 2      \* seconds since a socket's last checkout, and intervals
NumGreenlets == 3    \* greenlets that call wait() on the event

Waiters == 1..NumCallers   \* identities of the greenlets queued in connect()
SockIds == 1..MaxSockets   \* identities of the SocketInfo objects
None == -1                 \* Python's None, for an option that is None or a number
EventLoop == 0
Greenlets == 1..NumGreenlets   \* identities of the greenlets using the event

\* What a greenlet suspended in create_connection will need when it resumes:
\* get_socket's local `forced`, and whether _check() called connect().
CallKinds == [forced : BOOLEAN, inCheck : BOOLEAN]

VARIABLES
    max_size,            \* SocketPool.max_size
    wait_queue_multiple, \* SocketPool.wait_queue_multiple (None or an integer)
    wait_queue_timeout,  \* SocketPool.wait_queue_timeout (None or ms)
    pool_id,             \* SocketPool.pool_id
    sockets,             \* SocketPool.sockets: the idle SocketInfo objects
    motor_sock_counter,  \* SocketPool.motor_sock_counter
    queue,               \* SocketPool.queue: deque of waiters (greenlets)
    waiter_timeouts,     \* SocketPool.waiter_timeouts: its keys
    timers,              \* io_loop: waiters whose call_later timer is pending
    callbacks,           \* io_loop: call_soon callbacks <<waiter, sock_info>>
    sock,                \* the SocketInfo objects that are still referenced
    created,             \* number of sockets the factory has produced
    creating,            \* greenlets suspended in create_connection, per kind
    arrival,             \* greenlets suspended in connect(), in queueing order
    callForced,          \* get_socket's local `forced` of each such greenlet
    checked_out,         \* per SocketInfo, the callers that hold it
    raised,              \* exception raised by the last step, and in whom
    _flag,               \* MotorGreenletEvent._flag
    _waiters,            \* MotorGreenletEvent._waiters: list of greenlets
    _timeouts,           \* MotorGreenletEvent._timeouts: handles, one per waiter
    ev_timers,           \* io_loop: greenlets whose wait() timer is pending
    ev_callbacks,        \* io_loop: call_soon callbacks <<greenlet, None>>
    suspended            \* greenlets that switched to their parent in wait()

poolVars == <<max_size, wait_queue_multiple, wait_queue_timeout, pool_id,
              sockets, motor_sock_counter, queue, waiter_timeouts, timers,
              callbacks, sock, created, creating, arrival, callForced,
              checked_out, raised>>

eventVars == <<_flag, _waiters, _timeouts, ev_timers, ev_callbacks, suspended>>

vars == <<poolVars, eventVars>>

config == <<max_size, wait_queue_multiple, wait_queue_timeout>>

\* ---- helpers --------------------------------------------------------------
\* Python truthiness of an option that is None or an integer.
Truthy(x) == x # None /\ x # 0

\* SocketPool.__init__: max_waiters
max_waiters ==
    IF wait_queue_multiple = None THEN None
    ELSE max_size * wait_queue_multiple

\* SocketInfo.__init__; sock_closed tells whether the socket object in
\* SocketInfo.sock has been closed
SocketInfo(pid) ==
    [pool_id |-> pid, closed |-> FALSE, forced |-> FALSE, connected |-> FALSE,
     sock_closed |-> FALSE]

\* SocketInfo.close
Close(f, s) == [f EXCEPT ![s].closed = TRUE, ![s].sock_closed = TRUE]

\* A new SocketInfo object r with identity s.
New(f, s, r) == [x \in DOMAIN f \cup {s} |-> IF x = s THEN r ELSE f[x]]

\* The SocketInfo objects something still refers to: the idle set, a caller
\* or a scheduled callback.  Python frees the others.
Referenced(idle, out, cbs) ==
    idle \cup {s \in SockIds : out[s] > 0} \cup {cbs[i][2] : i \in 1..Len(cbs)}
Gc(f, refs) == [s \in DOMAIN f \cap refs |-> f[s]]

NoError == [who |-> EventLoop, what |-> "none"]
Raise(w, e) == [who |-> w, what |-> e]

\* collections.deque.remove / `waiter in self.queue`
InSeq(x, q) == \E i \in 1..Len(q) : q[i] = x
Remove_Leftmost(x, q) == Tail(q)

Remove(x, q) == SelectSeq(q, LAMBDA y : y # x)

RECURSIVE SumOver(_, _)
SumOver(f, S) == IF S = {} THEN 0
                 ELSE LET x == CHOOSE y \in S : TRUE IN f[x] + SumOver(f, S \ {x})

NumCreating == SumOver(creating, CallKinds)
NumHolding == SumOver(checked_out, SockIds)
\* the greenlets that are inside get_socket or hold a socket
Active == NumCreating + Len(arrival) + NumHolding

\* the identity a newly queued greenlet gets
FreshWaiter == CHOOSE w \in Waiters :
                   /\ ~InSeq(w, arrival)
                   /\ \A v \in Waiters : v < w => InSeq(v, arrival)

\* MotorGreenletEvent.__init__; no greenlet is waiting
InitEvent ==
    /\ _flag = FALSE
    /\ _waiters = <<>>
    /\ _timeouts = {}
    /\ ev_timers = {}
    /\ ev_callbacks = <<>>
    /\ suspended = {}

\* ---- initial state: SocketPool.__init__ ---------------------------------
Init ==
    /\ max_size \in 1..MaxPoolSize
    /\ wait_queue_multiple \in {None, 0, 1}
    /\ wait_queue_timeout \in {None, 50}
    /\ pool_id = 0
    /\ sockets = {}
    /\ motor_sock_counter = 0
    /\ queue = <<>>
    /\ waiter_timeouts = {}
    /\ timers = {}
    /\ callbacks = <<>>
    /\ sock = <<>>
    /\ created = 0
    /\ creating = [k \in CallKinds |-> 0]
    /\ arrival = <<>>
    /\ callForced = [w \in Waiters |-> FALSE]
    /\ checked_out = [s \in SockIds |-> 0]
    /\ raised = NoError
    /\ InitEvent

\* SocketPool.__init__ with max_size=None ("Set to `None` to disable") and
\* no cap on the waiters
InitUnbounded ==
    /\ max_size = None
    /\ wait_queue_multiple = None
    /\ wait_queue_timeout \in {None, 50}
    /\ pool_id = 0
    /\ sockets = {}
    /\ motor_sock_counter = 0
    /\ queue = <<>>
    /\ waiter_timeouts = {}
    /\ timers = {}
    /\ callbacks = <<>>
    /\ sock = <<>>
    /\ created = 0
    /\ creating = [k \in CallKinds |-> 0]
    /\ arrival = <<>>
    /\ callForced = [w \in Waiters |-> FALSE]
    /\ checked_out = [s \in SockIds |-> 0]
    /\ raised = NoError
    /\ InitEvent

InitAnySize == Init \/ InitUnbounded

\* ---- SocketPool.connect ------------------------------------------------
\* `not force and self.max_size and self.motor_sock_counter >= self.max_size`
AtCapacity_Always(force, counter) == ~force

AtCapacity_OffByOne(force, counter) ==
    ~force /\ Truthy(max_size) /\ counter > max_size

AtCapacity(force, counter) ==
    ~force /\ Truthy(max_size) /\ counter >= max_size

\* `self.max_waiters and len(self.queue) >= self.max_waiters`
QueueFull(q) == Truthy(max_waiters) /\ Len(q) >= max_waiters

\* connect(force) when the counter is `counter` (the caller may have changed
\* it in the same step); forced is get_socket's local, kept across the
\* suspension; fromCheck tells whether _check() is the caller.  Either
\* raises, queues the greenlet and suspends it, or enters create_connection,
\* which counts the socket and suspends the greenlet in MotorSocket.connect().
Connect(force, forced, counter, fromCheck) ==
    IF AtCapacity(force, counter)
    THEN IF QueueFull(queue)
         THEN \* raise self._create_wait_queue_timeout()
              /\ raised' = Raise(EventLoop, "ConnectionFailure")
              /\ motor_sock_counter' = counter
              /\ UNCHANGED <<queue, waiter_timeouts, timers, arrival,
                             callForced, creating>>
         ELSE LET waiter == FreshWaiter IN
              /\ queue' = Append(queue, waiter)
              /\ arrival' = Append(arrival, waiter)
              /\ IF wait_queue_timeout # None
                 THEN /\ timers' = timers \cup {waiter}
                      /\ waiter_timeouts' = waiter_timeouts \cup {waiter}
                 ELSE UNCHANGED <<timers, waiter_timeouts>>
              /\ motor_sock_counter' = counter
              /\ callForced' = [callForced EXCEPT ![waiter] = forced]
              /\ raised' = NoError
              /\ UNCHANGED creating
    ELSE \* create_connection: count the socket, suspend in connect()
         /\ created + NumCreating < MaxSockets
         /\ motor_sock_counter' = counter + 1
         /\ LET k == [forced |-> forced, inCheck |-> fromCheck] IN
            creating' = [creating EXCEPT ![k] = @ + 1]
         /\ raised' = NoError
         /\ UNCHANGED <<queue, waiter_timeouts, timers, arrival, callForced>>

\* ---- SocketPool._check ---------------------------------------------------
\* Whether _check() finds socket s unusable; probeDead is the outcome of
\* the elapsed-time test and of _closed(sock_info.sock).
CheckError(s, probeDead) ==
    \/ sock[s].closed
    \/ pool_id # sock[s].pool_id
    \/ probeDead

\* SocketPool.__init__: `self._check_interval_seconds = 1`
check_interval_seconds == 1

\* time.time() - sock_info.last_checkout, in whole seconds, and the values a
\* client may give _check_interval_seconds
Elapsed == 0..MaxSeconds
CheckIntervals == {None} \cup (1..MaxSeconds)

\* Whether _check() calls _closed(sock_info.sock) for an open socket of the
\* current pool_id: the branch `interval is not None and elapsed > interval`
\* or else the branch `elapsed > 1`.
Probes(interval, elapsed) ==
    \/ interval # None /\ elapsed > interval
    \/ elapsed > 1

\* `self.motor_sock_counter -= 1` in _check ("This socket is out of the pool
\* and we won't return it")
OutOfPool_StillCounted(counter) == counter

OutOfPool(counter) == counter - 1

\* ---- SocketPool.get_socket ---------------------------------------------
\* `self.sockets.pop()`: the idle set once s has been taken out of it
Pop_KeepsElement(idle, s) == idle

Pop(idle, s) == idle \ {s}

GetSocket(force) ==
    /\ Active < NumCallers
    /\ LET forced == force /\ motor_sock_counter >= max_size IN
       IF sockets # {}
       THEN \E s \in sockets, elapsed \in Elapsed, peerClosed \in BOOLEAN :
              IF ~CheckError(s, Probes(check_interval_seconds, elapsed)
                                 /\ peerClosed)
              THEN /\ sockets' = Pop(sockets, s)
                   /\ sock' = [sock EXCEPT ![s].forced = forced]
                   /\ checked_out' = [checked_out EXCEPT ![s] = @ + 1]
                   /\ raised' = NoError
                   /\ UNCHANGED <<motor_sock_counter, queue, waiter_timeouts,
                                  timers, arrival, callForced, creating>>
              ELSE \* the socket is closed and dropped, a new one is made
                   /\ sockets' = Pop(sockets, s)
                   /\ sock' = Gc(Close(sock, s),
                                 Referenced(sockets', checked_out, callbacks))
                   /\ Connect(FALSE, forced, OutOfPool(motor_sock_counter), TRUE)
                   /\ UNCHANGED checked_out
       ELSE /\ Connect(force, forced, motor_sock_counter, FALSE)
            /\ UNCHANGED <<sockets, sock, checked_out>>
    /\ UNCHANGED eventVars
    /\ UNCHANGED <<config, pool_id, callbacks, created>>

\* ---- create_connection resumes: the socket is connected ---------------
ConnectDone(k) ==
    /\ creating[k] > 0
    /\ creating' = [creating EXCEPT ![k] = @ - 1]
    /\ LET s == created + 1 IN
       /\ created' = s
       /\ sock' = New(sock, s, [SocketInfo(pool_id) EXCEPT !.forced = k.forced])
       /\ checked_out' = [checked_out EXCEPT ![s] = @ + 1]
    /\ raised' = NoError
    /\ UNCHANGED eventVars
    /\ UNCHANGED <<config, pool_id, sockets, motor_sock_counter, queue,
                   waiter_timeouts, timers, callbacks, arrival, callForced>>

\* ---- SocketPool.reset ----------------------------------------------------
\* `for sock_info in sockets: sock_info.close()`
CloseAll(f, S) ==
    [s \in DOMAIN f |-> IF s \in S THEN Close(f, s)[s] ELSE f[s]]

\* a reset that bumps pool_id and leaves the idle set as it is
ResetEffect_KeepsIdle ==
    /\ pool_id' = pool_id + 1
    /\ UNCHANGED <<sockets, sock>>

\* reset(): every idle socket is closed and nothing refers to it afterwards.
ResetEffect ==
    /\ pool_id' = pool_id + 1
    /\ sockets' = {}
    /\ sock' = Gc(CloseAll(sock, sockets), Referenced({}, checked_out, callbacks))

\* ---- create_connection resumes: the factory failed ------------------
\* a create_connection whose except clause forgets the counter
ConnectFail_KeepsCount(k, e) ==
    /\ creating[k] > 0
    /\ creating' = [creating EXCEPT ![k] = @ - 1]
    /\ raised' = Raise(EventLoop, e)
    /\ UNCHANGED eventVars
    /\ UNCHANGED <<config, pool_id, sockets, sock, motor_sock_counter, queue,
                   waiter_timeouts, timers, callbacks, created, arrival,
                   callForced, checked_out>>

\* `except socket.error: self.reset()` around the connect() of _check
ResetsPool_AnyError(k, e) == k.inCheck

ResetsPool(k, e) == k.inCheck /\ e = "socket.error"

\* e is "socket.error" or another exception; _check() resets the pool on
\* socket.error only.
ConnectFail(k, e) ==
    /\ creating[k] > 0
    /\ creating' = [creating EXCEPT ![k] = @ - 1]
    /\ motor_sock_counter' = motor_sock_counter - 1
    /\ IF ResetsPool(k, e)
       THEN ResetEffect
       ELSE UNCHANGED <<pool_id, sockets, sock>>
    /\ raised' = Raise(EventLoop, e)
    /\ UNCHANGED eventVars
    /\ UNCHANGED <<config, queue, waiter_timeouts, timers, callbacks, created,
                   arrival, callForced, checked_out>>

\* ---- SocketPool.maybe_return_socket -------------------------------------
\* `self.queue.popleft()`: the waiter that is served
NextWaiter_Newest(q) == q[Len(q)]

NextWaiter(q) == Head(q)

\* `self.motor_sock_counter -= 1` when socket s is returned closed or is
\* closed by the return; the tests of s.forced are commented out in the code
Decrement_UnlessForced(s, counter) ==
    IF sock[s].forced THEN counter ELSE counter - 1

Decrement(s, counter) == counter - 1

\* `self._framework.call_later_cancel(self.io_loop, timeout)` in
\* maybe_return_socket: the waiter's timer is no longer pending
call_later_cancel_Noop(pending, waiter) == pending

call_later_cancel(pending, waiter) == pending \ {waiter}

\* `self.motor_sock_counter <= self.max_size and sock_info.pool_id ==
\* self.pool_id`, where it does not raise: whether the socket goes idle
MayKeep_Always(s) == max_size # None

MayKeep_AnyPoolId(s) ==
    max_size # None /\ motor_sock_counter <= max_size

MayKeep(s) ==
    /\ max_size # None
    /\ motor_sock_counter <= max_size
    /\ sock[s].pool_id = pool_id

\* `self._framework.call_soon(self.io_loop, functools.partial(waiter,
\* sock_info))`: the event loop will resume the waiter with the socket
call_soon_Dropped(pending, waiter, s) == pending

call_soon(pending, waiter, s) == Append(pending, <<waiter, s>>)

\* `self.waiter_timeouts.pop(waiter)`: the waiter's entry leaves the map,
\* in the hand-off of maybe_return_socket and in on_timeout
PopHandle_Keeps(handles, waiter) == handles

PopHandle(handles, waiter) == handles \ {waiter}

\* `if self.queue:` in maybe_return_socket
HasWaiters_Never(q) == FALSE

HasWaiters(q) == q # <<>>

\* `if sock_info.closed:` at the top of maybe_return_socket
Closed_Never(s) == FALSE

Closed(s) == sock[s].closed

\* sock_info.forced when maybe_return_socket returns: the closed branch
\* returns before `if sock_info.forced: sock_info.forced = False`
ForcedOnReturn(s) == IF Closed(s) THEN sock[s].forced ELSE FALSE

\* A caller that holds socket s returns it and forgets it.  With max_size
\* None the test `self.motor_sock_counter <= self.max_size` compares an
\* integer with None: False under Python 2 (None sorts below every number),
\* a TypeError under Python 3; the module is written for both.
MaybeReturnSocket(s) ==
    /\ checked_out[s] > 0
    /\ checked_out' = [checked_out EXCEPT ![s] = @ - 1]
    /\ IF Closed(s)
       THEN /\ motor_sock_counter' = Decrement(s, motor_sock_counter)
            /\ sock' = Gc(sock, Referenced(sockets, checked_out', callbacks))
            /\ raised' = NoError
            /\ UNCHANGED <<sockets, queue, waiter_timeouts, timers, callbacks>>
       ELSE IF HasWaiters(queue)
       THEN LET waiter == NextWaiter(queue) IN
            /\ queue' = Tail(queue)
            /\ waiter_timeouts' = PopHandle(waiter_timeouts, waiter)
            /\ timers' = IF waiter \in waiter_timeouts
                         THEN call_later_cancel(timers, waiter) ELSE timers
            /\ callbacks' = call_soon(callbacks, waiter, s)
            /\ sock' = [sock EXCEPT ![s].forced = ForcedOnReturn(s)]
            /\ raised' = NoError
            /\ UNCHANGED <<sockets, motor_sock_counter>>
       ELSE \E python3 \in IF max_size = None THEN BOOLEAN ELSE {FALSE} :
            IF python3
            THEN \* the comparison raises; the socket stays open and counted
                 /\ raised' = Raise(EventLoop, "TypeError")
                 /\ sock' = Gc(sock, Referenced(sockets, checked_out', callbacks))
                 /\ UNCHANGED <<sockets, motor_sock_counter, queue,
                                waiter_timeouts, timers, callbacks>>
            ELSE IF MayKeep(s)
            THEN /\ sockets' = sockets \cup {s}
                 /\ sock' = [sock EXCEPT ![s].forced = ForcedOnReturn(s)]
                 /\ raised' = NoError
                 /\ UNCHANGED <<motor_sock_counter, queue, waiter_timeouts,
                                timers, callbacks>>
            ELSE /\ sock' = Gc(Close([sock EXCEPT ![s].forced = ForcedOnReturn(s)], s),
                               Referenced(sockets, checked_out', callbacks))
                 /\ motor_sock_counter' = Decrement(s, motor_sock_counter)
                 /\ raised' = NoError
                 /\ UNCHANGED <<sockets, queue, waiter_timeouts, timers,
                                callbacks>>
    /\ UNCHANGED eventVars
    /\ UNCHANGED <<config, pool_id, created, creating, arrival, callForced>>

\* ---- SocketPool.discard_socket ------------------------------------------
DiscardSocket(s) ==
    /\ checked_out[s] > 0
    /\ ~sock[s].closed
    /\ sock' = Close(sock, s)
    /\ raised' = NoError
    /\ UNCHANGED eventVars
    /\ UNCHANGED <<config, pool_id, sockets, motor_sock_counter, queue,
                   waiter_timeouts, timers, callbacks, created, creating,
                   arrival, callForced, checked_out>>

\* ---- SocketPool.reset called by the client -----------------------------
Reset ==
    /\ pool_id < MaxResets
    /\ ResetEffect
    /\ raised' = NoError
    /\ UNCHANGED eventVars
    /\ UNCHANGED <<config, motor_sock_counter, queue, waiter_timeouts, timers,
                   callbacks, created, creating, arrival, callForced,
                   checked_out>>

\* ---- connect.on_timeout ------------------------------------------------
\* `if waiter in self.queue: self.queue.remove(waiter)`
Expire_KeepsWaiter(waiter, q) == q

Expire(waiter, q) == IF InSeq(waiter, q) THEN Remove(waiter, q) ELSE q

\* The body of on_timeout, run by the event loop for `waiter`.
on_timeout(waiter) ==
    /\ timers' = timers \ {waiter}
    /\ queue' = Expire(waiter, queue)
    /\ IF waiter \in waiter_timeouts
       THEN \* pop the handle, throw the timeout into the greenlet
            /\ waiter_timeouts' = PopHandle(waiter_timeouts, waiter)
            /\ callForced' = [callForced EXCEPT ![waiter] = FALSE]
            /\ arrival' = Remove(waiter, arrival)
            /\ raised' = Raise(waiter, "ConnectionFailure")
       ELSE \* self.waiter_timeouts.pop(waiter) raises KeyError
            /\ raised' = Raise(EventLoop, "KeyError")
            /\ UNCHANGED <<waiter_timeouts, callForced, arrival>>
    /\ UNCHANGED eventVars
    /\ UNCHANGED <<config, pool_id, sockets, motor_sock_counter, callbacks,
                   sock, created, creating, checked_out>>

\* The waiter's call_later timer fires.  call_later_cancel removes the timer
\* from the event loop, so only a timer that was not cancelled fires.
OnTimeout(waiter) ==
    /\ waiter \in timers
    /\ on_timeout(waiter)

\* ---- the event loop runs the oldest call_soon callback ----------------
\* functools.partial(waiter, sock_info): the waiter resumes in connect()
\* with the socket and get_socket() finishes.
RunCallback ==
    /\ callbacks # <<>>
    /\ LET waiter == Head(callbacks)[1]
           s == Head(callbacks)[2] IN
       /\ callbacks' = Tail(callbacks)
       /\ sock' = [sock EXCEPT ![s].forced = callForced[waiter]]
       /\ checked_out' = [checked_out EXCEPT ![s] = @ + 1]
       /\ callForced' = [callForced EXCEPT ![waiter] = FALSE]
       /\ arrival' = Remove(waiter, arrival)
    /\ raised' = NoError
    /\ UNCHANGED eventVars
    /\ UNCHANGED <<config, pool_id, sockets, motor_sock_counter, queue,
                   waiter_timeouts, timers, created, creating>>

Next ==
    \/ \E force \in BOOLEAN : GetSocket(force)
    \/ \E k \in CallKinds : ConnectDone(k)
    \/ \E k \in CallKinds, e \in {"socket.error", "other"} : ConnectFail(k, e)
    \/ \E s \in SockIds : MaybeReturnSocket(s)
    \/ \E s \in SockIds : DiscardSocket(s)
    \/ Reset
    \/ \E waiter \in Waiters : OnTimeout(waiter)
    \/ RunCallback

Spec == Init /\ [][Next]_vars

\* ---- the pool without forced acquisitions --------------------------------
\* No caller passes force=True (none in this repository does); everything
\* else happens as in Spec.
NextUnforced ==
    \/ GetSocket(FALSE)
    \/ \E k \in CallKinds : ConnectDone(k)
    \/ \E k \in CallKinds, e \in {"socket.error", "other"} : ConnectFail(k, e)
    \/ \E s \in SockIds : MaybeReturnSocket(s)
    \/ \E s \in SockIds : DiscardSocket(s)
    \/ Reset
    \/ \E waiter \in Waiters : OnTimeout(waiter)
    \/ RunCallback

SpecUnforced == Init /\ [][NextUnforced]_vars

\* ---- bounded and unbounded pools, without forced acquisitions ----------
SpecAnySize == InitAnySize /\ [][NextUnforced]_vars

\* ---- acquire, forced or not, and release only ----------------------------
\* The callers only use get_socket(force) and maybe_return_socket(); waits,
\* timeouts, hand-offs and factory failures happen as in Spec.
NextForced ==
    \/ \E force \in BOOLEAN : GetSocket(force)
    \/ \E k \in CallKinds : ConnectDone(k)
    \/ \E k \in CallKinds, e \in {"socket.error", "other"} : ConnectFail(k, e)
    \/ \E s \in SockIds : MaybeReturnSocket(s)
    \/ \E waiter \in Waiters : OnTimeout(waiter)
    \/ RunCallback

SpecForced == Init /\ [][NextForced]_vars

\* ---- acquire, forced or not, release and reset ---------------------------
\* As SpecForced, and the client also calls reset(); no waiter's deadline
\* elapses.
NextForcedReset ==
    \/ \E force \in BOOLEAN : GetSocket(force)
    \/ \E k \in CallKinds : ConnectDone(k)
    \/ \E k \in CallKinds, e \in {"socket.error", "other"} : ConnectFail(k, e)
    \/ \E s \in SockIds : MaybeReturnSocket(s)
    \/ Reset
    \/ RunCallback

SpecForcedReset == Init /\ [][NextForcedReset]_vars

\* ---- a pool without deadlines, resets and failures -----------------------
\* wait_queue_timeout is None, the factory always connects, nobody calls
\* reset() or discard_socket(); every creation finishes, the event loop runs
\* every scheduled callback and every caller returns the socket it holds.
InitNoDeadline == Init /\ wait_queue_timeout = None

NextProgress ==
    \/ \E force \in BOOLEAN : GetSocket(force)
    \/ \E k \in CallKinds : ConnectDone(k)
    \/ \E s \in SockIds : MaybeReturnSocket(s)
    \/ RunCallback

SpecProgress ==
    /\ InitNoDeadline
    /\ [][NextProgress]_vars
    /\ WF_vars(RunCallback)
    /\ \A k \in CallKinds : WF_vars(ConnectDone(k))
    /\ \A s \in SockIds : WF_vars(MaybeReturnSocket(s))

\* ---- an event loop whose cancelled timers may still fire ----------------
\* The waiter has been dequeued by maybe_return_socket (its resumption is
\* scheduled, its timer cancelled) and the event loop runs on_timeout for it
\* all the same.
Served(waiter) == \E i \in 1..Len(callbacks) : callbacks[i][1] = waiter

LateTimeout(waiter) ==
    /\ wait_queue_timeout # None
    /\ Served(waiter)
    /\ waiter \notin timers
    /\ on_timeout(waiter)

NextLate ==
    \/ Next
    \/ \E waiter \in Waiters : LateTimeout(waiter)

SpecLate == Init /\ [][NextLate]_vars

\* ---- the MySQL connection on top of the pool -----------------------------
\* MysqlConnPool.__init__ builds the SocketPool with max_size only: no
\* wait_queue_timeout, no wait_queue_multiple.
InitMysql ==
    /\ Init
    /\ wait_queue_timeout = None
    /\ wait_queue_multiple = None

\* `if not self.sock_info.connected:` in PoolConnection.connect
NeedsHandshake_Always(s) == TRUE

NeedsHandshake(s) == ~sock[s].connected

\* PoolConnection.connect once get_sock_info() has returned socket s and
\* the flag is false: _get_server_information, _request_authentication and
\* the session commands all succeed, `self.sock_info.connected = True`.
HandshakeOk(s) ==
    /\ checked_out[s] > 0
    /\ NeedsHandshake(s)
    /\ ~sock[s].sock_closed
    /\ sock' = [sock EXCEPT ![s].connected = TRUE]
    /\ raised' = NoError
    /\ UNCHANGED eventVars
    /\ UNCHANGED <<config, pool_id, sockets, motor_sock_counter, queue,
                   waiter_timeouts, timers, callbacks, created, creating,
                   arrival, callForced, checked_out>>

\* PoolConnection.connect once get_sock_info() has returned socket s and
\* the flag is false: a step of the handshake raises.  The except clause
\* closes self.socket and raises; the connection keeps self.sock_info.
HandshakeFail(s) ==
    /\ checked_out[s] > 0
    /\ NeedsHandshake(s)
    /\ sock' = [sock EXCEPT ![s].sock_closed = TRUE]
    /\ raised' = Raise(EventLoop, "OperationalError")
    /\ UNCHANGED eventVars
    /\ UNCHANGED <<config, pool_id, sockets, motor_sock_counter, queue,
                   waiter_timeouts, timers, callbacks, created, creating,
                   arrival, callForced, checked_out>>

\* PoolConnection.connect is get_sock_info() and then the handshake;
\* PoolConnection.close is return_sock_info(self.sock_info).  The factory
\* may fail, also for the replacement socket of _check.
NextMysql ==
    \/ GetSocket(FALSE)
    \/ \E k \in CallKinds : ConnectDone(k)
    \/ \E k \in CallKinds, e \in {"socket.error", "other"} : ConnectFail(k, e)
    \/ \E s \in SockIds : HandshakeOk(s)
    \/ \E s \in SockIds : HandshakeFail(s)
    \/ \E s \in SockIds : MaybeReturnSocket(s)
    \/ RunCallback

SpecMysql == InitMysql /\ [][NextMysql]_vars

\* ---- MotorGreenletEvent --------------------------------------------------
\* `if not self._flag:` in wait
Suspends_Always(flag) == TRUE

Suspends(flag) == ~flag

\* set(): `for timeout_handle in timeouts: call_later_cancel(...)`
RECURSIVE CancelAll(_, _)
CancelAll(pending, handles) ==
    IF handles = {} THEN pending
    ELSE LET h == CHOOSE x \in handles : TRUE IN
         CancelAll(call_later_cancel(pending, h), handles \ {h})

\* set(): `for waiter in waiters: call_soon(self.io_loop, waiter.switch)`
RECURSIVE ScheduleAll(_, _)
ScheduleAll(pending, waiters) ==
    IF waiters = <<>> THEN pending
    ELSE ScheduleAll(call_soon(pending, Head(waiters), None), Tail(waiters))

\* MotorGreenletEvent.set
Set ==
    /\ _flag' = TRUE
    /\ _timeouts' = {}
    /\ ev_timers' = CancelAll(ev_timers, _timeouts)
    /\ _waiters' = <<>>
    /\ ev_callbacks' = ScheduleAll(ev_callbacks, _waiters)
    /\ UNCHANGED suspended
    /\ UNCHANGED poolVars

\* MotorGreenletEvent.clear
Clear ==
    /\ _flag' = FALSE
    /\ UNCHANGED <<_waiters, _timeouts, ev_timers, ev_callbacks, suspended>>
    /\ UNCHANGED poolVars

\* MotorGreenletEvent.wait called by greenlet `current`, which is running:
\* up to `parent.switch()`, or all of it when the flag is set.
Wait(current, timeout_seconds) ==
    /\ current \notin suspended
    /\ IF Suspends(_flag)
       THEN /\ _waiters' = Append(_waiters, current)
            /\ IF timeout_seconds # None
               THEN /\ ev_timers' = ev_timers \cup {current}
                    /\ _timeouts' = _timeouts \cup {current}
               ELSE UNCHANGED <<ev_timers, _timeouts>>
            /\ suspended' = suspended \cup {current}
       ELSE UNCHANGED <<_waiters, ev_timers, _timeouts, suspended>>
    /\ UNCHANGED <<_flag, ev_callbacks>>
    /\ UNCHANGED poolVars

\* wait.on_timeout, run by the event loop for greenlet `current`
wait_on_timeout(current) ==
    /\ ev_timers' = ev_timers \ {current}
    /\ IF InSeq(current, _waiters)
       THEN /\ _waiters' = Remove(current, _waiters)
            /\ _timeouts' = _timeouts \ {current}
            /\ suspended' = suspended \ {current}
       ELSE \* self._waiters.remove(current) raises ValueError
            UNCHANGED <<_waiters, _timeouts, suspended>>
    /\ UNCHANGED <<_flag, ev_callbacks>>
    /\ UNCHANGED poolVars

\* The timer of a wait(timeout_seconds) fires; a cancelled timer is no longer
\* pending.
WaitTimeout(current) ==
    /\ current \in ev_timers
    /\ wait_on_timeout(current)

\* The event loop runs the oldest deferred `waiter.switch`: the greenlet
\* resumes after `parent.switch()` and wait() returns.
RunWakeup ==
    /\ ev_callbacks # <<>>
    /\ suspended' = suspended \ {Head(ev_callbacks)[1]}
    /\ ev_callbacks' = Tail(ev_callbacks)
    /\ UNCHANGED <<_flag, _waiters, _timeouts, ev_timers>>
    /\ UNCHANGED poolVars

\* An event used by NumGreenlets greenlets; the pool is not used.
InitEventOnly ==
    /\ Init
    /\ max_size = 1
    /\ wait_queue_multiple = None
    /\ wait_queue_timeout = None

NextEvent ==
    \/ Set
    \/ Clear
    \/ \E current \in Greenlets, timeout_seconds \in {None, 1} :
         Wait(current, timeout_seconds)
    \/ \E current \in Greenlets : WaitTimeout(current)
    \/ RunWakeup

SpecEvent == InitEventOnly /\ [][NextEvent]_vars

TypeOK ==
    /\ max_size \in (1..MaxPoolSize) \cup {None}
    /\ sockets \subseteq 1..created
    /\ DOMAIN sock = Referenced(sockets, checked_out, callbacks)
    /\ motor_sock_counter \in Int
    /\ Active <= NumCallers

\* ==== properties ===========================================================
\* resources checked out (held by a caller or on their way to a waiter) or
\* being created
outstanding == NumHolding + Len(callbacks) + NumCreating

\* how many contexts own SocketInfo s: the idle set, callers, hand-offs
InHandoff(s) == Cardinality({i \in 1..Len(callbacks) : callbacks[i][2] = s})
Owners(s) == (IF s \in sockets THEN 1 ELSE 0) + checked_out[s] + InHandoff(s)

\* the sockets the pool should be counting, and the counter's excess
Counted == Cardinality(sockets) + outstanding
Leak == motor_sock_counter - Counted

\* a caller receives SocketInfo s in this step
Receives(s) == checked_out'[s] > checked_out[s]

\* C1: as long as no caller forces an acquisition, the resources checked out
\* or being created plus the idle ones never exceed max_size.
C1_SizeBound == outstanding + Cardinality(sockets) <= max_size

\* C1 witness: the pool is full, a socket is checked out and a caller is
\* queued for it.
C1_Witness ==
    /\ outstanding + Cardinality(sockets) = max_size
    /\ queue # <<>>
    /\ NumHolding >= 1

\* C2: every SocketInfo has at most one owner: it is not both idle and
\* checked out, not held by two callers and not scheduled for two waiters;
\* and no waiter is scheduled to receive two sockets.
C2_NoDoubleIssue ==
    /\ \A s \in SockIds : Owners(s) <= 1
    /\ \A i, j \in 1..Len(callbacks) :
         callbacks[i][1] = callbacks[j][1] => i = j

\* C2 witness: one socket is on its way to a waiter while another is idle
\* or checked out.
C2_Witness ==
    /\ callbacks # <<>>
    /\ \E s \in SockIds : s \in DOMAIN sock /\ InHandoff(s) = 0

\* C3: the waiters that have been served are the ones queued first, and
\* they are resumed in queueing order: the suspended waiters in queueing
\* order are the scheduled ones, in scheduling order, followed by the queue.
C3_Fifo ==
    arrival = [i \in 1..Len(callbacks) |-> callbacks[i][1]] \o queue

\* C3 witness: of two waiters the earlier has been served, the later is
\* still queued.
C3_Witness == Len(callbacks) >= 1 /\ Len(queue) >= 1

\* C4: whenever a caller receives a socket (idle reuse, fresh creation or
\* hand-off), its pool_id is the pool's current pool_id.
C4_ReceivedIsCurrent ==
    [][\A s \in SockIds : Receives(s) => sock'[s].pool_id = pool_id']_vars

\* C5: with max_size = 1, after a reset, when nothing is idle or checked
\* out and no call is in flight, get_socket() goes on to create a socket and
\* is not queued.
C5_ResetThenAcquire ==
    [][(/\ max_size = 1
        /\ pool_id >= 1
        /\ created >= 1
        /\ sockets = {}
        /\ Active = 0
        /\ GetSocket(FALSE))
       => (NumCreating' = 1 /\ queue' = <<>>)]_vars

\* C6: a non-forced get_socket that finds no idle socket, the pool at
\* capacity and len(queue) >= max_waiters raises at once and changes nothing.
C6_Exhaustion ==
    [][(/\ sockets = {}
        /\ motor_sock_counter >= max_size
        /\ max_waiters # None
        /\ Len(queue) >= max_waiters
        /\ GetSocket(FALSE))
       => (/\ raised' = Raise(EventLoop, "ConnectionFailure")
           /\ UNCHANGED <<motor_sock_counter, sockets, queue, pool_id,
                          waiter_timeouts, arrival, creating>>)]_vars

\* C7: when the timer of a queued waiter fires, the waiter leaves the queue,
\* its handle leaves waiter_timeouts, it resumes with the timeout error, the
\* counter and the idle set are unchanged, and no hand-off to it is pending.
C7_Timeout ==
    [][\A w \in Waiters :
         (InSeq(w, queue) /\ OnTimeout(w))
         => (/\ ~InSeq(w, queue')
             /\ w \notin waiter_timeouts'
             /\ w \notin timers'
             /\ ~InSeq(w, arrival')
             /\ raised' = Raise(w, "ConnectionFailure")
             /\ \A i \in 1..Len(callbacks') : callbacks'[i][1] # w
             /\ UNCHANGED <<motor_sock_counter, sockets>>)]_vars

\* C7 witness: a waiter has just timed out while another socket is still
\* checked out.
C7_Witness ==
    /\ raised.what = "ConnectionFailure"
    /\ raised.who \in Waiters
    /\ ~InSeq(raised.who, queue)
    /\ NumHolding >= 1

\* C8: on_timeout for a waiter that maybe_return_socket has already served
\* does nothing: no error, no resumption, no change of the pool.
C8_LateTimeoutIsNoOp ==
    [][\A w \in Waiters :
         LateTimeout(w)
         => (/\ raised' = NoError
             /\ UNCHANGED <<queue, waiter_timeouts, motor_sock_counter,
                            sockets, arrival, callbacks>>)]_vars

\* C9: get_socket(force=True) on a fully checked-out pool enters
\* create_connection at once, whatever the queue; the forced acquire, the
\* creation and every return leave the counter's excess over the sockets
\* in existence unchanged; without a reset the counter is exact, and once
\* everything is returned it is at most max_size.
C9_ForcedStep ==
    /\ (sockets = {} /\ motor_sock_counter >= max_size /\ GetSocket(TRUE))
         => (/\ NumCreating' = NumCreating + 1
             /\ motor_sock_counter' = motor_sock_counter + 1
             /\ raised' = NoError
             /\ UNCHANGED <<queue, arrival>>)
    /\ (\/ GetSocket(TRUE)
        \/ \E k \in CallKinds : ConnectDone(k)
        \/ \E s \in SockIds : MaybeReturnSocket(s))
         => Leak' = Leak

C9_Exact ==
    /\ pool_id = 0 => Leak = 0
    /\ Active = 0 => motor_sock_counter <= max_size

C9_ForcedBypass == [][C9_Exact /\ C9_Exact' /\ C9_ForcedStep]_vars

\* C9 witness: a socket acquired with force is checked out on top of a full
\* pool while a caller is queued, and the counter is exact.
C9_Witness ==
    /\ \E s \in DOMAIN sock : checked_out[s] = 1 /\ sock[s].forced
    /\ motor_sock_counter = max_size + 1
    /\ queue # <<>>
    /\ Leak = 0

\* C10: returning a socket whose forced flag is set does not decrement
\* motor_sock_counter.
C10_ForcedNotDecremented ==
    [][\A s \in SockIds :
         (MaybeReturnSocket(s) /\ sock[s].forced)
         => motor_sock_counter' = motor_sock_counter]_vars

\* C11: reset() called by the client adds exactly one to pool_id, leaves the
\* idle set empty with every socket that was in it closed (or freed), and
\* touches nothing else: the counter, the sockets that are checked out, being
\* handed over or being created, the waiter queue, the timers and the
\* suspended greenlets are as before, and nothing is raised in anybody.
C11_ResetFrame ==
    [][Reset =>
        /\ pool_id' = pool_id + 1
        /\ sockets' = {}
        /\ \A s \in sockets : s \notin DOMAIN sock' \/ sock'[s].closed
        /\ UNCHANGED <<motor_sock_counter, queue, waiter_timeouts, timers,
                       arrival, callbacks, creating, checked_out, callForced>>
        /\ outstanding' = outstanding
        /\ \A s \in DOMAIN sock \ sockets : s \in DOMAIN sock' /\ sock'[s] = sock[s]
        /\ raised' = NoError]_vars

\* reset() has closed an idle socket while another socket was checked out,
\* and a greenlet waits with a deadline
C11_Witness ==
    /\ pool_id = 1
    /\ sockets = {}
    /\ Leak = 1
    /\ NumHolding >= 1
    /\ \E s \in DOMAIN sock : checked_out[s] = 1 /\ sock[s].pool_id = 0 /\ ~sock[s].closed
    /\ queue # <<>>
    /\ timers # {}

\* C12: after every step no idle socket is closed, and a socket a caller
\* receives from get_socket (popped from the idle set, newly created or
\* handed over by a release) is not closed.
C12_NeverClosed ==
    [][/\ \A s \in sockets' : ~sock'[s].closed
       /\ \A s \in SockIds : Receives(s) => ~sock'[s].closed]_vars

\* after a reset, a caller holds a socket it has discarded while another
\* socket is idle
C12_Witness ==
    /\ pool_id = 1
    /\ sockets # {}
    /\ \E s \in DOMAIN sock : checked_out[s] = 1 /\ sock[s].closed

\* C13: a get_socket that finds no idle socket and a free slot adds one to
\* the counter and suspends in the factory; when the factory then fails in
\* that greenlet the counter goes down by one again (so the call leaves it
\* as it found it), the idle set, the sockets, the queue, the timers, the
\* scheduled hand-offs and pool_id are unchanged, and the factory's own
\* exception is what the caller gets.
C13_FactoryFailure ==
    [][/\ (sockets = {} /\ motor_sock_counter < max_size /\ GetSocket(FALSE))
           => /\ motor_sock_counter' = motor_sock_counter + 1
              /\ creating' = [creating EXCEPT
                                ![[forced |-> FALSE, inCheck |-> FALSE]] = @ + 1]
              /\ raised' = NoError
              /\ UNCHANGED <<sockets, sock, queue, waiter_timeouts, timers,
                             arrival, callbacks, pool_id, checked_out>>
       /\ \A k \in CallKinds, e \in {"socket.error", "other"} :
            (~k.inCheck /\ ConnectFail(k, e))
            => /\ motor_sock_counter' = motor_sock_counter - 1
               /\ raised' = Raise(EventLoop, e)
               /\ UNCHANGED <<sockets, sock, queue, waiter_timeouts, timers,
                              arrival, callbacks, pool_id, checked_out>>]_vars

\* the factory has failed for a plain get_socket while a socket was checked
\* out and a greenlet was queued: the slot is free again, the waiter is
\* still queued
C13_Witness ==
    /\ raised.what = "socket.error"
    /\ pool_id = 0
    /\ NumCreating = 0
    /\ NumHolding >= 1
    /\ queue # <<>>
    /\ motor_sock_counter = max_size - 1

\* C14: discard_socket on a checked-out socket closes it and takes one off
\* the counter, and a later maybe_return_socket of that closed socket leaves
\* the counter alone.
C14_DiscardDecrements ==
    [][\A s \in SockIds :
         /\ DiscardSocket(s)
             => /\ sock'[s].closed
                /\ motor_sock_counter' = motor_sock_counter - 1
         /\ (MaybeReturnSocket(s) /\ sock[s].closed)
             => motor_sock_counter' = motor_sock_counter]_vars

\* C15: in a pool built with max_size=None and wait_queue_multiple=None
\* get_socket never queues the caller and never raises the pool's
\* ConnectionFailure, maybe_return_socket never raises, and when it is given
\* an unclosed socket of the current pool_id while nobody waits, the socket
\* is in the idle set afterwards.
C15_Unbounded ==
    [][(max_size = None /\ wait_queue_multiple = None) =>
        /\ GetSocket(FALSE)
            => (queue' = <<>> /\ raised'.what # "ConnectionFailure")
        /\ \A s \in SockIds :
             MaybeReturnSocket(s)
             => /\ raised' = NoError
                /\ (~sock[s].closed /\ sock[s].pool_id = pool_id /\ queue = <<>>)
                    => s \in sockets']_vars

\* C16: when maybe_return_socket is given an unclosed socket while greenlets
\* are queued, the head of the queue and nobody else leaves the queue, its
\* timer is cancelled and its entry in waiter_timeouts removed, its
\* resumption with that very socket is scheduled, and the counter, the idle
\* set and the number of sockets out of the idle set are unchanged; when the
\* event loop runs the resumption, that waiter and no other greenlet leaves
\* connect() holding that socket.
C16_HandOff ==
    [][/\ \A s \in SockIds :
            (MaybeReturnSocket(s) /\ ~sock[s].closed /\ queue # <<>>)
            => /\ queue' = Tail(queue)
               /\ waiter_timeouts' = waiter_timeouts \ {Head(queue)}
               /\ timers' = timers \ {Head(queue)}
               /\ Head(queue) \notin timers'
               /\ callbacks' = Append(callbacks, <<Head(queue), s>>)
               /\ s \in DOMAIN sock' /\ ~sock'[s].closed
               /\ outstanding' = outstanding
               /\ raised' = NoError
               /\ UNCHANGED <<motor_sock_counter, sockets, arrival, creating>>
       /\ RunCallback
            => /\ arrival' = Remove(Head(callbacks)[1], arrival)
               /\ checked_out' = [checked_out EXCEPT ![Head(callbacks)[2]] = @ + 1]
               /\ outstanding' = outstanding
               /\ UNCHANGED <<motor_sock_counter, sockets, queue>>]_vars

\* a release has just served the first of two waiters with deadlines: its
\* timer is gone, the other waiter is still queued with its timer pending
C16_Witness ==
    /\ Len(callbacks) = 1
    /\ Len(queue) = 1
    /\ callbacks[1][1] \notin timers \cup waiter_timeouts
    /\ queue[1] \in timers \cap waiter_timeouts
    /\ callbacks[1][1] < queue[1]
    /\ NumHolding = 0

\* C17: when maybe_return_socket is given an unclosed socket and nobody is
\* queued, then if the counter is at most max_size and the socket's pool_id
\* is the pool's, the socket joins the idle set, open, and the counter stays;
\* otherwise the socket is closed, the idle set stays as it was and the
\* counter goes down by exactly one.
C17_ReleaseNoWaiters ==
    [][\A s \in SockIds :
         (MaybeReturnSocket(s) /\ ~sock[s].closed /\ queue = <<>>)
         => /\ raised' = NoError
            /\ UNCHANGED <<queue, callbacks, pool_id>>
            /\ IF motor_sock_counter <= max_size /\ sock[s].pool_id = pool_id
               THEN /\ sockets' = sockets \cup {s}
                    /\ ~sock'[s].closed
                    /\ motor_sock_counter' = motor_sock_counter
               ELSE /\ sockets' = sockets
                    /\ s \notin sockets'
                    /\ s \notin DOMAIN sock' \/ sock'[s].closed
                    /\ motor_sock_counter' = motor_sock_counter - 1]_vars

\* after a reset a caller still holds an open socket of the old pool_id,
\* nobody waits, and a forced socket has taken the counter above max_size
C17_Witness ==
    /\ pool_id = 1
    /\ queue = <<>>
    /\ callbacks = <<>>
    /\ motor_sock_counter = max_size + 1
    /\ \E s \in DOMAIN sock :
          checked_out[s] = 1 /\ ~sock[s].closed /\ sock[s].pool_id = 0
    /\ \E s \in DOMAIN sock :
          checked_out[s] = 1 /\ ~sock[s].closed /\ sock[s].pool_id = 1

\* C18: a checked-out socket whose pool_id is older than the pool's (reset()
\* ran while it was out) is closed by its next maybe_return_socket, and is
\* then neither idle nor scheduled for a queued waiter, whether or not
\* greenlets are queued.
C18_StaleIsDiscarded ==
    [][\A s \in SockIds :
         (MaybeReturnSocket(s) /\ sock[s].pool_id < pool_id)
         => /\ s \notin sockets'
            /\ \A i \in 1..Len(callbacks') : callbacks'[i][2] # s
            /\ s \notin DOMAIN sock' \/ sock'[s].closed]_vars

\* C19: a get_socket that pops an idle socket either returns that socket,
\* which is then open and of the current pool_id, or closes it, and then the
\* counter is where it was (one down for the socket, one up for the
\* replacement), the caller is suspended in the creation of the replacement
\* and nothing is raised or queued; when that creation succeeds the caller
\* holds a new open socket of the current pool_id and nothing is raised.
C19_HealthCheck ==
    [][/\ \A force \in BOOLEAN :
            (sockets # {} /\ GetSocket(force))
            => \E s \in sockets :
                 /\ sockets' = sockets \ {s}
                 /\ raised' = NoError
                 /\ UNCHANGED <<motor_sock_counter, queue, arrival, pool_id>>
                 /\ IF Receives(s)
                    THEN /\ ~sock[s].closed /\ ~sock'[s].closed
                         /\ sock[s].pool_id = pool_id
                         /\ UNCHANGED creating
                    ELSE /\ s \notin DOMAIN sock' \/ sock'[s].closed
                         /\ UNCHANGED checked_out
                         /\ NumCreating' = NumCreating + 1
                         /\ \E k \in CallKinds :
                              k.inCheck /\ creating'[k] = creating[k] + 1
       /\ \A k \in CallKinds :
            (k.inCheck /\ ConnectDone(k))
            => /\ created' \notin DOMAIN sock
               /\ Receives(created')
               /\ ~sock'[created'].closed
               /\ sock'[created'].pool_id = pool_id'
               /\ raised' = NoError
               /\ UNCHANGED <<motor_sock_counter, sockets, queue, pool_id>>]_vars

\* a forced get_socket at capacity has popped the only idle socket, found
\* it dead and is creating the replacement: the counter is where it was
C19_Witness ==
    /\ creating[[forced |-> TRUE, inCheck |-> TRUE]] = 1
    /\ created = 1
    /\ sockets = {}
    /\ DOMAIN sock = {}
    /\ motor_sock_counter = max_size
    /\ pool_id = 0

C21_ProbeGating ==
    \A s \in sockets :
        (~sock[s].closed /\ sock[s].pool_id = pool_id)
        => \A interval \in CheckIntervals \ {None}, elapsed \in Elapsed :
             elapsed <= interval => ~Probes(interval, elapsed)

\* a forced acquisition is outstanding: a caller holds a socket marked
\* forced, or a get_socket whose local `forced` is set is creating one
ForcedOutstanding ==
    \/ \E s \in DOMAIN sock : checked_out[s] > 0 /\ sock[s].forced
    \/ \E k \in CallKinds : k.forced /\ creating[k] > 0

\* C22: the sockets that are idle, checked out, being handed over or being
\* created never number more than max_size + 1, and they number more than
\* max_size only while a forced acquisition is outstanding.
C22_OverCapacityBound ==
    /\ Counted <= max_size + 1
    /\ Counted > max_size => ForcedOutstanding

\* C23: when wait_queue_multiple is given, zero included, the queue never
\* holds more than max_size * wait_queue_multiple waiters.
C23_WaiterCap ==
    wait_queue_multiple # None => Len(queue) <= max_size * wait_queue_multiple

\* C24: when the deadline of a queued waiter fires, that waiter and no other
\* leaves the queue and gets the timeout; the other waiters keep their
\* order, their timers and their waiter_timeouts entries, no hand-off is
\* added or dropped, and the greenlets still suspended are, in arrival
\* order, those already being served followed by the queue, so that later
\* releases serve them first come first served.
C24_DeadlineIndependence ==
    [][\A w \in Waiters :
         (InSeq(w, queue) /\ OnTimeout(w))
         => /\ queue' = SelectSeq(queue, LAMBDA v : v # w)
            /\ timers' = timers \ {w}
            /\ waiter_timeouts' = waiter_timeouts \ {w}
            /\ \A v \in Waiters \ {w} :
                  InSeq(v, queue) => /\ InSeq(v, queue')
                                     /\ v \in timers'
                                     /\ v \in waiter_timeouts'
                                     /\ callForced'[v] = callForced[v]
            /\ raised' = Raise(w, "ConnectionFailure")
            /\ UNCHANGED <<callbacks, sockets, motor_sock_counter, checked_out>>
            /\ arrival' = [i \in 1..Len(callbacks') |-> callbacks'[i][1]] \o queue'
       ]_vars

\* the deadline of the first of two waiters has fired: the second is still
\* queued with its timer pending while a caller holds the socket
C24_Witness ==
    /\ raised.what = "ConnectionFailure"
    /\ raised.who \in Waiters
    /\ Len(queue) = 1
    /\ raised.who < queue[1]
    /\ queue[1] \in timers \cap waiter_timeouts
    /\ arrival = queue
    /\ NumHolding = 1

\* C25: whichever branch maybe_return_socket takes for a socket, the
\* socket's forced flag is false when the call returns.
C25_ForcedCleared ==
    [][\A s \in SockIds : MaybeReturnSocket(s) => ~ForcedOnReturn(s)]_vars

\* the open sockets that callers hold
LiveHeld == Cardinality({s \in DOMAIN sock : checked_out[s] > 0 /\ ~sock[s].closed})

\* C26: whenever no socket is being created, motor_sock_counter is the
\* number of open sockets the pool has made: the idle ones, those callers
\* hold and those being handed to a waiter.
C26_CounterAccuracy ==
    NumCreating = 0
    => motor_sock_counter = Cardinality(sockets) + LiveHeld + Len(callbacks)

\* C27: whenever no socket is being created and no hand-off is pending, a
\* non-empty waiter queue means that the counter has reached max_size.
C27_NoLostWakeup ==
    (NumCreating = 0 /\ callbacks = <<>> /\ queue # <<>>)
    => motor_sock_counter >= max_size

\* C28: without deadlines, resets and factory failures, and with every
\* holder returning its socket open, every greenlet suspended in connect()
\* eventually leaves it with a socket, and a release takes at most one
\* waiter off the queue and schedules at most one resumption.
C28_Progress ==
    /\ \A w \in Waiters : InSeq(w, arrival) ~> ~InSeq(w, arrival)
    /\ [][\A s \in SockIds :
            MaybeReturnSocket(s)
            => /\ Len(queue') >= Len(queue) - 1
               /\ Len(callbacks') <= Len(callbacks) + 1]_vars

\* two greenlets are queued behind the holder of the only socket
C28_Witness ==
    /\ wait_queue_timeout = None
    /\ max_size = 1
    /\ Len(queue) = 2
    /\ NumHolding = 1
    /\ callbacks = <<>>

\* C29: the idle set and the waiter queue are never both non-empty.
C29_IdleOrWaiters == queue # <<>> => sockets = {}

\* a greenlet is queued although a slot is free (a closed socket was
\* returned or a creation failed), a caller holds a socket, none is idle
C29_Witness ==
    /\ queue # <<>>
    /\ sockets = {}
    /\ motor_sock_counter < max_size
    /\ NumHolding >= 1
    /\ NumCreating = 0

\* C30: every idle socket carries the pool's current pool_id, so the
\* pool_id branch of _check never rejects a socket popped from the idle set.
C30_IdleIsCurrent == \A s \in sockets : sock[s].pool_id = pool_id

\* after a reset a socket of the new pool_id is idle while a caller still
\* holds an open socket of the old one
C30_Witness ==
    /\ pool_id = 1
    /\ \E s \in sockets : sock[s].pool_id = 1
    /\ \E s \in DOMAIN sock :
          checked_out[s] = 1 /\ ~sock[s].closed /\ sock[s].pool_id = 0

\* C31: a get_socket that finds the idle set non-empty, forced or not,
\* queues nobody and raises nothing: the counter less the rejected socket is
\* below max_size, so the caller either has the popped socket or is
\* suspended in the creation of its replacement.
C31_IdlePopNeverWaits ==
    [][\A force \in BOOLEAN :
         (sockets # {} /\ GetSocket(force))
         => /\ OutOfPool(motor_sock_counter) < max_size
            /\ raised' = NoError
            /\ UNCHANGED <<queue, arrival, waiter_timeouts, timers>>
            /\ \/ NumHolding' = NumHolding + 1 /\ UNCHANGED creating
               \/ NumCreating' = NumCreating + 1 /\ UNCHANGED checked_out]_vars

\* a pool of one socket: get_socket has popped it while idle, rejected it
\* and is creating the replacement without having queued
C31_Witness ==
    /\ max_size = 1
    /\ creating[[forced |-> FALSE, inCheck |-> TRUE]] = 1
    /\ created = 1
    /\ motor_sock_counter = 1
    /\ queue = <<>>
    /\ raised = NoError

\* C36: the keys of waiter_timeouts are exactly the waiters in the queue when
\* wait_queue_timeout is configured, and each of them has exactly its one
\* pending timer; without wait_queue_timeout the map and the timers are
\* empty. So a waiter removed from the queue has no entry and no timer.
C36_TimerBookkeeping ==
    IF wait_queue_timeout # None
    THEN /\ waiter_timeouts = {queue[i] : i \in 1..Len(queue)}
         /\ timers = waiter_timeouts
    ELSE /\ waiter_timeouts = {}
         /\ timers = {}

C36_Witness ==
    /\ raised.what = "ConnectionFailure"
    /\ raised.who \in Waiters
    /\ Len(queue) = 1
    /\ raised.who # queue[1]
    /\ waiter_timeouts = {queue[1]}
    /\ timers = {queue[1]}

\* C34: every socket PoolConnection.connect() obtained is given back to the
\* pool by close() or by the failing connect() itself: when the handshake
\* raises, the connection no longer holds the socket after that step, so the
\* failed connect() does not keep a slot of the pool.
C34_ReleasesWhatItAcquires ==
    [][\A s \in SockIds :
         HandshakeFail(s) => checked_out'[s] = checked_out[s] - 1]_vars

InWaiters(g, ws) == Cardinality({i \in 1..Len(ws) : ws[i] = g})
Scheduled(g, cbs) == Cardinality({i \in 1..Len(cbs) : cbs[i][1] = g})

\* greenlet g resumes in this step
Resumes(g) == g \in suspended /\ g \notin suspended'

\* C32: a suspended greenlet always has exactly one resumption ahead of it:
\* it is once in the waiter list, or its wake-up is scheduled once, never
\* both; set() schedules every greenlet of the waiter list and clear() takes
\* no scheduled wake-up away; a timer is pending only for a greenlet that is
\* still in the waiter list, so a greenlet woken by set() cannot time out as
\* well; and a greenlet that has resumed is in no list, has no handle and no
\* timer, so nothing resumes it a second time.
C32_ResumedOnce ==
    [][\A g \in Greenlets :
         /\ g \in suspended'
              => InWaiters(g, _waiters') + Scheduled(g, ev_callbacks') = 1
         /\ g \notin suspended'
              => /\ InWaiters(g, _waiters') + Scheduled(g, ev_callbacks') = 0
                 /\ g \notin _timeouts'
                 /\ g \notin ev_timers'
         /\ (g \in _timeouts') = (g \in ev_timers')
         /\ g \in ev_timers' => InWaiters(g, _waiters') = 1
         /\ (Set /\ InWaiters(g, _waiters) = 1)
              => Scheduled(g, ev_callbacks') = 1
         /\ (Clear /\ Scheduled(g, ev_callbacks) = 1)
              => Scheduled(g, ev_callbacks') = 1
         /\ Resumes(g)
              => \/ Scheduled(g, ev_callbacks) = 1 /\ g \notin ev_timers
                 \/ Scheduled(g, ev_callbacks) = 0 /\ g \in ev_timers]_vars

\* C32 witness: set() has scheduled a wake-up, clear() was called before it
\* ran, and a greenlet that called wait(timeout) since then is waiting.
C32_Witness ==
    /\ ~_flag
    /\ ev_callbacks # <<>>
    /\ \E g \in suspended : g \in _timeouts /\ g \in ev_timers

\* C33: wait() with the flag set changes nothing: no suspension, no waiter,
\* no timer; wait() with the flag clear appends the greenlet to the waiter
\* list, suspends it and registers a timer exactly when a timeout is given;
\* such a greenlet resumes only through a wake-up that a set() scheduled or
\* through its own timer; set() sets the flag and leaves the waiter list and
\* the timeout set empty.
C33_WaitAndSet ==
    [][/\ \A g \in Greenlets, t \in {None, 1} :
            Wait(g, t)
            => IF _flag
               THEN UNCHANGED eventVars
               ELSE /\ g \in suspended'
                    /\ _waiters' = Append(_waiters, g)
                    /\ (t # None) = (g \in _timeouts' /\ g \in ev_timers')
                    /\ UNCHANGED <<_flag, ev_callbacks>>
       /\ Set => (_flag' /\ _waiters' = <<>> /\ _timeouts' = {})
       /\ \A g \in Greenlets :
            Resumes(g)
            => \/ /\ ev_callbacks # <<>>
                  /\ Head(ev_callbacks)[1] = g
                  /\ ~InSeq(g, _waiters)
               \/ /\ g \in _timeouts
                  /\ InSeq(g, _waiters)
                  /\ _flag' = _flag]_vars

\* C33 witness: the flag was set and cleared again (a wake-up of the set()
\* is still scheduled) and a wait() without timeout has suspended its caller.
C33_Witness ==
    /\ ~_flag
    /\ ev_callbacks # <<>>
    /\ \E g \in suspended : InSeq(g, _waiters) /\ g \notin _timeouts

====
